---- MODULE Spec2Model ----
(***************************************************************************)
(* Cognify front-end: the conversation / message / quiz-thread store       *)
(* (store/useStore.ts), the chat send-and-stream flow and the quiz         *)
(* blocking of the chat view (ChatBox), and the quiz side panel            *)
(* (SidePopup.tsx), as state machines.                                     *)
(*                                                                         *)
(* Conversation ids are naturals, 0 standing for null.  A backend request  *)
(* reaches the backend when it is issued; its response stays in flight     *)
(* until the awaiting continuation runs, which is one atomic step (the      *)
(* browser runs one callback at a time).                                   *)
(***************************************************************************)
EXTENDS Naturals, Sequences, FiniteSets

VARIABLES
    conversations,            \* store: Conversation[]
    selectedConversationId,   \* store: string | null
    messagesByConversation,   \* store: Record<string, Message[]>
    messageThreadMap,         \* store: Record<string, string>
    nextId,                   \* next fresh conversation / session id
    nextMsg,                  \* next fresh message id
    backendSessions,          \* the sessions the backend lists, in its order
    convLoads,                \* responses in flight: GET .../conversations
    msgLoads,                 \* responses in flight: GET .../messages
    creates,                  \* responses in flight: POST .../sessions
    threadCreates,            \* responses in flight: POST /api/create-quiz-thread
    lastOp,                   \* history: the last store call and what it saw
    threadLog,                \* history: the openOrCreateThreadForMessage calls
    addLog,                   \* history: the messages passed to addMessage, in call order
    flow,                     \* ChatBox: the handleSendMessage invocation under way
    sends,                    \* ChatBox: handleSendMessage invocations begun
    nextSrv,                  \* backend: next message id it issues
    timers,                   \* ChatBox: setTimeout callbacks of completed replies
    ui,                       \* ChatBox / SidePopup: React state
    quizCreates,              \* responses in flight: createQuizForMessage
    sidebar,                  \* MessageList: the search query and the list it shows
    graph,                    \* KnowledgeGraphPage: the response and the graph built
    popup                     \* SidePopup: the quiz panel, its requests and the quiz backend

storeVars == <<conversations, selectedConversationId, messagesByConversation,
               messageThreadMap>>
netVars == <<nextId, nextMsg, backendSessions, convLoads, msgLoads, creates,
             threadCreates>>
histVars == <<lastOp, threadLog>>
uiVars == <<addLog, flow, sends, nextSrv, timers, ui, quizCreates>>
pageVars == <<sidebar, graph, popup>>
vars == <<storeVars, netVars, histVars, uiVars, pageVars>>

----------------------------------------------------------------------------
(* Bounds of the model *)

\* conversation / session / quiz ids that can ever be allocated
MaxId == 3
\* messages that addMessage can create
MaxMsgs == 2
\* responses of one kind that can be in flight together
MaxInflight == 1
\* the sessions the backend already holds when the page loads
InitialSessions == <<1>>

Null == 0

----------------------------------------------------------------------------
(* Values *)

MsgId(k, n) == [k |-> k, n |-> n, s |-> 0]
\* `${message.id}-seed`
SeedId(id) == [id EXCEPT !.s = @ + 1]

Message(id, content, role, conversationId) ==
    [id |-> id, content |-> content, role |-> role,
     conversationId |-> conversationId, threadConversationId |-> Null]

Conversation(id, title, lastMessage, isActive) ==
    [id |-> id, title |-> title, lastMessage |-> lastMessage, isActive |-> isActive,
     quizMode |-> "none"]

\* 'Start a new conversation...'
StartPreview == <<"start">>

\* what the backend holds for a session that existed before the page loaded
\* (the payload of GET .../messages: a role that is missing is "", a content
\* that is missing is the empty text)
BackendMessages(c) ==
    IF c \in {InitialSessions[i] : i \in 1..Len(InitialSessions)}
    THEN <<[id |-> MsgId("old", 2 * c), content |-> <<"old">>, role |-> "assistant",
            conversationId |-> c],
           [id |-> MsgId("old", 2 * c + 1), content |-> <<>>, role |-> "",
            conversationId |-> c]>>
    ELSE <<>>

\* loadMessagesForConversation: transformedMessages (lines 157-170)
TransformedMessages(payload) ==
    [i \in 1..Len(payload) |->
        Message(payload[i].id, payload[i].content,
                IF payload[i].role = "" THEN "user" ELSE payload[i].role,
                payload[i].conversationId)]

\* a failed load that empties the conversation's list
ClearedMessages(mbc, c) == [k \in DOMAIN mbc \cup {c} |-> IF k = c THEN <<>> ELSE mbc[k]]

\* loadMessagesForConversation's catch: "Keep existing messages if API fails"
KeptMessages(mbc, c) == mbc

Ids(convs) == {convs[i].id : i \in 1..Len(convs)}
ActiveIds(convs) == {convs[i].id : i \in {j \in 1..Len(convs) : convs[j].isActive}}
StoredMessages(mbc) == UNION {{mbc[c][i] : i \in 1..Len(mbc[c])} : c \in DOMAIN mbc}

----------------------------------------------------------------------------
(* The store's state updates, as functions of the state they read *)

DeactivateAll(convs) ==
    [i \in 1..Len(convs) |-> [convs[i] EXCEPT !.isActive = FALSE]]

\* an addConversation that leaves the list as it is
AddConversationNone(convs, conv) == convs

\* addConversation: the new conversation first, every other one deactivated
AddConversation(convs, conv) == <<conv>> \o DeactivateAll(convs)

\* deleteConversation: state.conversations.filter(conv => conv.id !== id)
Remaining(convs, id) == SelectSeq(convs, LAMBDA c : c.id # id)

\* a deleteConversation that keeps the deleted id selected
NewSelectedIdStale(convs, selected, id) == selected

\* deleteConversation: newSelectedId
NewSelectedId(convs, selected, id) ==
    IF selected = id
    THEN (IF Len(Remaining(convs, id)) > 0 THEN Remaining(convs, id)[1].id ELSE Null)
    ELSE selected

\* a deleteConversation that leaves the message lists alone
RemainingMessagesKept(mbc, id) == mbc

\* deleteConversation: const { [id]: deletedMessages, ...remainingMessages }
RemainingMessages(mbc, id) == [c \in DOMAIN mbc \ {id} |-> mbc[c]]

\* a selectConversation that flags the chosen one and clears no other flag
SelectFlagsKeepOthers(convs, id) ==
    [i \in 1..Len(convs) |->
        [convs[i] EXCEPT !.isActive = (convs[i].isActive \/ convs[i].id = id)]]

\* selectConversation: isActive: conv.id === id
SelectFlags(convs, id) ==
    [i \in 1..Len(convs) |-> [convs[i] EXCEPT !.isActive = (convs[i].id = id)]]

\* loadConversations: the backend's list, every entry with isActive: false
TransformedConversations(list) ==
    [i \in 1..Len(list) |-> Conversation(list[i], "Backend title", <<>>, FALSE)]

\* a load that keeps the conversations the backend's list does not name
MergedConversations(convs, list) ==
    TransformedConversations(list) \o
    SelectSeq(convs, LAMBDA c : \A i \in 1..Len(list) : list[i] # c.id)

\* loadConversations: set({ conversations: transformedConversations }) (line 142)
LoadedConversations(convs, list) == TransformedConversations(list)

\* createNewConversation: newConversation
NewConversation(id) == Conversation(id, "New conversation", StartPreview, TRUE)

\* an update of the preview that reaches every conversation
UpdateConversationLastMessageAll(convs, id, lastMessage) ==
    [i \in 1..Len(convs) |-> [convs[i] EXCEPT !.lastMessage = lastMessage]]

\* updateConversationLastMessage
UpdateConversationLastMessage(convs, id, lastMessage) ==
    [i \in 1..Len(convs) |->
        IF convs[i].id = id THEN [convs[i] EXCEPT !.lastMessage = lastMessage]
        ELSE convs[i]]

\* updateConversation(id, { title })
UpdateConversationTitle(convs, id, title) ==
    [i \in 1..Len(convs) |->
        IF convs[i].id = id THEN [convs[i] EXCEPT !.title = title]
        ELSE convs[i]]

\* updateConversation(id, { quizMode })
UpdateConversationQuizMode(convs, id, mode) ==
    [i \in 1..Len(convs) |->
        IF convs[i].id = id THEN [convs[i] EXCEPT !.quizMode = mode]
        ELSE convs[i]]

\* getMessagesForConversation: messagesByConversation[conversationId] || []
GetMessagesForConversation(mbc, c) == IF c \in DOMAIN mbc THEN mbc[c] ELSE <<>>

\* setMessagesForConversation, and the set of loadMessagesForConversation
SetMessagesForConversation(mbc, c, msgs) ==
    [k \in DOMAIN mbc \cup {c} |-> IF k = c THEN msgs ELSE mbc[k]]

\* an addMessage that puts the new message first
AddMessageFirst(mbc, msg) ==
    [k \in DOMAIN mbc \cup {msg.conversationId} |->
        IF k = msg.conversationId
        THEN <<msg>> \o (IF k \in DOMAIN mbc THEN mbc[k] ELSE <<>>)
        ELSE mbc[k]]

\* addMessage: append to the list keyed by the message's conversationId
AddMessage(mbc, msg) ==
    SetMessagesForConversation(mbc, msg.conversationId,
        Append(GetMessagesForConversation(mbc, msg.conversationId), msg))

\* updateMessageContent: by id, across every conversation's list
UpdateMessageContent(mbc, messageId, content) ==
    [c \in DOMAIN mbc |->
        [i \in 1..Len(mbc[c]) |->
            IF mbc[c][i].id = messageId THEN [mbc[c][i] EXCEPT !.content = content]
            ELSE mbc[c][i]]]

\* updateMessageId: by id, across every conversation's list
UpdateMessageId(mbc, oldMessageId, newMessageId) ==
    [c \in DOMAIN mbc |->
        [i \in 1..Len(mbc[c]) |->
            IF mbc[c][i].id = oldMessageId THEN [mbc[c][i] EXCEPT !.id = newMessageId]
            ELSE mbc[c][i]]]

\* getThreadForMessage: messageThreadMap[messageId] || null
GetThreadForMessage(map, messageId) ==
    IF messageId \in DOMAIN map THEN map[messageId] ELSE Null

\* linkMessageToThread, and the map updates of the thread creators
LinkMessageToThread(map, messageId, threadId) ==
    [k \in DOMAIN map \cup {messageId} |-> IF k = messageId THEN threadId ELSE map[k]]

\* getConversationById(id)?.id: the id of the first match, null when none
GetConversationById(convs, id) == IF id \in Ids(convs) THEN id ELSE Null

\* openOrCreateThreadForMessage: annotate the original message with its thread
AnnotateThread(mbc, message, threadId) ==
    SetMessagesForConversation(mbc, message.conversationId,
        [i \in 1..Len(GetMessagesForConversation(mbc, message.conversationId)) |->
            LET m == GetMessagesForConversation(mbc, message.conversationId)[i]
            IN  IF m.id = message.id THEN [m EXCEPT !.threadConversationId = threadId]
                ELSE m])

\* the seeded copy of the source message: `${message.id}-seed`, role assistant
SeededAssistantMessage(message, threadId) ==
    Message(SeedId(message.id), message.content, "assistant", threadId)

----------------------------------------------------------------------------
(* History of the calls, for stating what a call returned and what it saw *)

\* lastOp is the call made by the last step when it is one of these, NoOp otherwise
TrackedOps ==
    {"selectConversation", "deleteConversation", "handleCloseSidePopup",
     "loadMessagesDone", "loadMessagesFail", "loadConversationsDone",
     "loadConversationsFail", "createNewConversation", "createNewConversationFail",
     "createOrSelectEmptyConversation"}
NoOp == [op |-> "none", id |-> Null, prev |-> Null]
Op(op, id) ==
    IF op \in TrackedOps
    THEN [op |-> op, id |-> id,
          prev |-> IF op = "deleteConversation" THEN selectedConversationId ELSE Null]
    ELSE NoOp

\* one record per openOrCreateThreadForMessage call of a message, in call order
ThreadCall(state, ret, issued, afterResolved, mapSame) ==
    [state |-> state, ret |-> ret, issued |-> issued,
     afterResolved |-> afterResolved, mapSame |-> mapSame]
CallsOf(m) == IF m \in DOMAIN threadLog THEN threadLog[m] ELSE <<>>
LogCall(m, call) ==
    [k \in DOMAIN threadLog \cup {m} |->
        IF k = m THEN Append(CallsOf(m), call) ELSE threadLog[k]]
\* calls of one message that the model follows
MaxOpenCalls == 2

HasRoom(set, r) == r \in set \/ Cardinality(set) < MaxInflight
\* session-create requests in flight at once
MaxCreates == 2

----------------------------------------------------------------------------
(* The chat view before any message is sent *)

\* let placeholderAssistantId = ''
NoId == MsgId("none", 0)

\* flow.events, flow.base and flow.before are history: the events read so far,
\* the conversation's messages once the user's message was appended, and the
\* store's messages before the last event was handled; flow.reads counts the
\* data lines handled over all sends; flow.selected is the selectedConversationId
\* of the render whose handlers the send runs (the closure of handleOpenSidePopup)
IdleFlow ==
    [pc |-> "idle", conversationId |-> Null, placeholderAssistantId |-> NoId,
     fullResponse |-> <<>>, events |-> <<>>, base |-> <<>>, before |-> <<>>,
     reads |-> 0, selected |-> Null]

\* the useState initial values of ChatBox and SidePopup (messages: the roles of
\* the panel's messages); ui.owed is history: the callback of a completed reply
\* found its conversation strict and no answer has been submitted since
\* (ui.blockedBy: that conversation)
InitialUi ==
    [isLoading |-> FALSE, sidePopupOpen |-> FALSE, selectedMessageId |-> NoId,
     isQuizBlocking |-> FALSE, quizResponseCount |-> 0, messages |-> <<>>,
     owed |-> FALSE, blockedBy |-> Null]

----------------------------------------------------------------------------
(* Initial state: the store as constructed, the backend holding InitialSessions *)

----------------------------------------------------------------------------
(* The sidebar's search: filteredConversations of MessageList *)

MaxText == 2
MaxListed == 2

Letters == {"a", "A", "b"}

\* the texts of at most n letters
RECURSIVE TextsUpTo(_)
TextsUpTo(n) ==
    IF n = 0 THEN {<<>>}
    ELSE TextsUpTo(n - 1) \cup
         {Append(t, l) : t \in {u \in TextsUpTo(n - 1) : Len(u) = n - 1}, l \in Letters}

\* what the user can type into the search field
SearchTexts == TextsUpTo(MaxText)

\* a comparison that leaves the case of the letters alone
ToLowerCaseNone(text) == text

\* String.prototype.toLowerCase
ToLowerCase(text) == [i \in 1..Len(text) |-> IF text[i] = "A" THEN "a" ELSE text[i]]

\* String.prototype.includes
Includes(text, part) ==
    \E k \in 1..(Len(text) + 1) :
        /\ k + Len(part) - 1 <= Len(text)
        /\ SubSeq(text, k, k + Len(part) - 1) = part

\* filteredConversations (lines 32-35)
FilteredConversations(convs, searchQuery) ==
    SelectSeq(convs, LAMBDA conv :
        \/ Includes(ToLowerCase(conv.title), ToLowerCase(searchQuery))
        \/ Includes(ToLowerCase(conv.lastMessage), ToLowerCase(searchQuery)))

\* useState('') of searchQuery, and the list the first render shows
InitialSidebar(convs) ==
    [searchQuery |-> <<>>, filteredConversations |-> FilteredConversations(convs, <<>>)]

\* onChange of the search field: setSearchQuery, and the render that follows
SetSearchQuery(q) ==
    /\ sidebar' = [searchQuery |-> q,
                   filteredConversations |-> FilteredConversations(conversations, q)]
    /\ UNCHANGED <<storeVars, netVars, histVars, uiVars, graph, popup>>

----------------------------------------------------------------------------
(* The knowledge graph: loadKnowledgeGraph of KnowledgeGraphPage *)

MaxTopics == 2
MaxEdges == 2

TopicNames == {"t1", "t2", "t3"}

\* the sequences of at most n elements of S
RECURSIVE SeqsUpTo(_, _)
SeqsUpTo(S, n) ==
    IF n = 0 THEN {<<>>}
    ELSE SeqsUpTo(S, n - 1) \cup
         {Append(t, x) : t \in {u \in SeqsUpTo(S, n - 1) : Len(u) = n - 1}, x \in S}

\* the body of a 2xx response of GET /api/knowledge-graph; a field may be missing
Response(hasTopics, topics, hasEdges, edges) ==
    [hasTopics |-> hasTopics, topics |-> topics, hasEdges |-> hasEdges, edges |-> edges]

Responses ==
    {Response(TRUE, t, TRUE, e) :
        t \in SeqsUpTo(TopicNames, MaxTopics),
        e \in SeqsUpTo(TopicNames \X TopicNames, MaxEdges)}
    \cup {Response(FALSE, <<>>, TRUE, e) : e \in SeqsUpTo(TopicNames \X TopicNames, 1)}
    \cup {Response(TRUE, t, FALSE, <<>>) : t \in SeqsUpTo(TopicNames, MaxTopics)}
    \cup {Response(FALSE, <<>>, FALSE, <<>>)}

\* const topics = data.topics || [...] (line 217)
Topics(data) ==
    IF data.hasTopics THEN data.topics
    ELSE <<"Test Node 1", "Test Node 2", "Test Node 3">>

\* const edgeList = data.edges || [...] (line 218)
EdgeList(data) ==
    IF data.hasEdges THEN data.edges
    ELSE <<<<"Test Node 1", "Test Node 2">>, <<"Test Node 2", "Test Node 3">>>>

\* nodeDegrees.get(topic) || 0 (lines 229-235)
NodeDegree(edgeList, topic) ==
    Cardinality({i \in 1..Len(edgeList) : edgeList[i][1] = topic})
    + Cardinality({i \in 1..Len(edgeList) : edgeList[i][2] = topic})

\* transformedNodes (lines 241-293); the position is random and left out
TransformedNodes(topics, edgeList) ==
    [i \in 1..Len(topics) |->
        [id |-> topics[i], label |-> topics[i],
         degree |-> NodeDegree(edgeList, topics[i])]]

\* edges that are named after their two ends
TransformedEdgesByEnds(edgeList) ==
    [i \in 1..Len(edgeList) |->
        [id |-> <<"edge", edgeList[i][1], edgeList[i][2]>>, source |-> edgeList[i][1],
         target |-> edgeList[i][2]]]

\* transformedEdges (lines 302-326): id `edge-${index}`
TransformedEdges(edgeList) ==
    [i \in 1..Len(edgeList) |->
        [id |-> <<"edge", i - 1>>, source |-> edgeList[i][1], target |-> edgeList[i][2]]]

\* fallbackNodes, fallbackEdges (lines 353-397)
FallbackNodes ==
    <<[id |-> "ai", label |-> "AI", degree |-> 0],
      [id |-> "ml", label |-> "ML", degree |-> 0]>>

FallbackEdges == <<[id |-> <<"e1-2">>, source |-> "ai", target |-> "ml"]>>

\* the page before its load effect has run: useNodesState([]), useEdgesState([])
Graph(data, phase, nodes, edges) ==
    [data |-> data, phase |-> phase, nodes |-> nodes, edges |-> edges]

InitialGraph == Graph(Response(FALSE, <<>>, FALSE, <<>>), "mounted", <<>>, <<>>)

\* the load effect up to its fetch (lines 196-202)
LoadKnowledgeGraphStart ==
    /\ graph.phase = "mounted"
    /\ graph' = [graph EXCEPT !.phase = "loading"]
    /\ UNCHANGED <<storeVars, netVars, histVars, uiVars, sidebar, popup>>

\* the load after a 2xx response: setNodes, setEdges (lines 335-336)
LoadKnowledgeGraphDone ==
    /\ graph.phase = "loading"
    /\ graph' = [graph EXCEPT !.phase = "loaded",
                              !.nodes = TransformedNodes(Topics(graph.data),
                                                         EdgeList(graph.data)),
                              !.edges = TransformedEdges(EdgeList(graph.data))]
    /\ UNCHANGED <<storeVars, netVars, histVars, uiVars, sidebar, popup>>

\* the load after a rejected fetch or a non-2xx response: the sample graph
LoadKnowledgeGraphFail ==
    /\ graph.phase = "loading"
    /\ graph' = [graph EXCEPT !.phase = "failed", !.nodes = FallbackNodes,
                              !.edges = FallbackEdges]
    /\ UNCHANGED <<storeVars, netVars, histVars, uiVars, sidebar, popup>>

----------------------------------------------------------------------------
(* The quiz panel: the open effect of SidePopup, loadQuizMessages, askQuestion *)

MaxQuizzes == 2
MaxOpens == 3
MaxQuizMsgs == 3
MaxAnswers == 1

Quizzes == 1..MaxQuizzes

\* a message of a quiz thread: n is the number of the answer it is, or it
\* replies to; 0 for a question
QuizMessage(role, content, n) == [role |-> role, content |-> content, n |-> n]

\* the panel not rendered; every quiz exists on the backend with no message yet.
\* inst counts the mounts of the panel (ChatBox renders it only while open);
\* hasAsked is hasAskedForQuizRef of each mount; askLog is history: the
\* automatic askQuestion calls with the number of messages the backend held;
\* settled is history: the answers whose request has returned
InitialPopup ==
    [isOpen |-> FALSE, inst |-> 0, quiz |-> Null, messages |-> <<>>,
     isLoading |-> FALSE, isAskingQuestion |-> FALSE, hasAsked |-> {}, loads |-> {},
     asks |-> {}, answers |-> {}, backend |-> [q \in Quizzes |-> <<>>], opens |-> 0,
     sent |-> 0, askLog |-> <<>>, settled |-> {}]

\* is the mount that issued a request still rendered?
Mounted(p, inst) == p.isOpen /\ p.inst = inst

\* data.map(...) of loadQuizMessages (lines 109-114): one message per backend
\* message, in order, with its content and role
LoadedQuizMessages(data) ==
    [i \in 1..Len(data) |-> QuizMessage(data[i].role, data[i].content, data[i].n)]

\* loadQuizMessages' result (lines 96-125): true for a non-empty array, false
\* for an empty one and for any failure
HasExistingMessages(r) == r.ok /\ Len(r.data) > 0

\* the panel is opened for a message whose mapped quiz is q (mounting it), or
\* moved to such a message while open: the reset effect (53-60) and the open
\* effect up to the fetch of loadQuizMessages (63-73, 96-98)
OpenPanel(q, ok) ==
    /\ popup.opens < MaxOpens
    /\ ~popup.isOpen \/ popup.quiz # q
    /\ LET inst == IF popup.isOpen THEN popup.inst ELSE popup.inst + 1
           r == [inst |-> inst, quiz |-> q, ok |-> ok,
                 data |-> IF ok THEN popup.backend[q] ELSE <<>>,
                 asking |-> popup.isOpen /\ popup.isAskingQuestion]
       IN  popup' = [popup EXCEPT !.isOpen = TRUE, !.inst = inst, !.quiz = q,
                                  !.messages = <<>>, !.isAskingQuestion = FALSE,
                                  !.isLoading = popup.isOpen /\ @,
                                  !.opens = @ + 1, !.loads = @ \cup {r}]
    /\ UNCHANGED <<storeVars, netVars, histVars, uiVars, sidebar, graph>>

\* loadQuizMessages returns and the open effect goes on (lines 74-86): the
\* messages are shown, or the initial question is asked (the POST reaches the
\* backend, which stores the question unless it fails)
LoadQuizMessagesDone(r, askOk) ==
    /\ r \in popup.loads
    /\ LET mounted == Mounted(popup, r.inst)
           auto == /\ ~HasExistingMessages(r)
                   /\ <<r.inst, r.quiz>> \notin popup.hasAsked
                   /\ ~r.asking
       IN  /\ (auto /\ askOk) => Len(popup.backend[r.quiz]) < MaxQuizMsgs
           /\ popup' =
                  [popup EXCEPT
                     !.loads = @ \ {r},
                     !.messages = IF HasExistingMessages(r) /\ mounted
                                  THEN LoadedQuizMessages(r.data) ELSE @,
                     !.hasAsked = IF auto THEN @ \cup {<<r.inst, r.quiz>>} ELSE @,
                     !.isAskingQuestion = IF mounted THEN auto ELSE @,
                     !.asks = IF auto
                              THEN @ \cup {[inst |-> r.inst, quiz |-> r.quiz, ok |-> askOk]}
                              ELSE @,
                     !.backend = IF auto /\ askOk
                                 THEN [@ EXCEPT ![r.quiz] =
                                          Append(@, QuizMessage("assistant", "question", 0))]
                                 ELSE @,
                     !.askLog = IF auto
                                THEN Append(@, [quiz |-> r.quiz,
                                                prior |-> Len(popup.backend[r.quiz])])
                                ELSE @]
    /\ UNCHANGED <<storeVars, netVars, histVars, uiVars, sidebar, graph>>

\* askQuestion returns (lines 127-152) and the effect ends (87-91): the question
\* is appended to the panel's messages, or the failure is logged
AskQuestionDone(a) ==
    /\ a \in popup.asks
    /\ LET mounted == Mounted(popup, a.inst)
       IN  popup' = [popup EXCEPT
                       !.asks = @ \ {a},
                       !.messages = IF a.ok /\ mounted
                                    THEN Append(@, QuizMessage("assistant", "question", 0))
                                    ELSE @,
                       !.isAskingQuestion = IF mounted THEN FALSE ELSE @]
    /\ UNCHANGED <<storeVars, netVars, histVars, uiVars, sidebar, graph>>

\* the panel's handleSendMessage up to its fetch (lines 217-246): the answer is
\* appended and posted; the backend stores it and its evaluation unless it fails
PanelSendStart(ok) ==
    /\ popup.isOpen /\ ~popup.isLoading
    /\ popup.sent < MaxAnswers
    /\ ok => Len(popup.backend[popup.quiz]) + 2 <= MaxQuizMsgs
    /\ LET n == popup.sent + 1
           a == [inst |-> popup.inst, quiz |-> popup.quiz, n |-> n, ok |-> ok,
                 opens |-> popup.opens]
       IN  popup' =
               [popup EXCEPT
                  !.sent = n,
                  !.messages = Append(@, QuizMessage("user", "answer", n)),
                  !.isLoading = TRUE,
                  !.answers = @ \cup {a},
                  !.backend = IF ok
                              THEN [@ EXCEPT ![popup.quiz] =
                                       @ \o <<QuizMessage("user", "answer", n),
                                              QuizMessage("assistant", "evaluation", n)>>]
                              ELSE @]
    /\ UNCHANGED <<storeVars, netVars, histVars, uiVars, sidebar, graph>>

\* ... resumed by the response (247-279): the evaluation is appended, or the
\* apology after a failure; isLoading is cleared
PanelSendDone(a) ==
    /\ a \in popup.answers
    /\ LET mounted == Mounted(popup, a.inst)
           reply == QuizMessage("assistant", IF a.ok THEN "evaluation" ELSE "apology", a.n)
       IN  popup' = [popup EXCEPT
                       !.answers = @ \ {a},
                       !.messages = IF mounted THEN Append(@, reply) ELSE @,
                       !.isLoading = IF mounted THEN FALSE ELSE @,
                       !.settled = @ \cup {a}]
    /\ UNCHANGED <<storeVars, netVars, histVars, uiVars, sidebar, graph>>

\* the panel is closed: ChatBox stops rendering it and its state is dropped
ClosePanel ==
    /\ popup.isOpen
    /\ popup' = [popup EXCEPT !.isOpen = FALSE, !.quiz = Null, !.messages = <<>>,
                              !.isAskingQuestion = FALSE, !.isLoading = FALSE]
    /\ UNCHANGED <<storeVars, netVars, histVars, uiVars, sidebar, graph>>

----------------------------------------------------------------------------
(* The state after construction *)

\* everything but the conversation list and the two pages
InitRest ==
    /\ selectedConversationId = Null
    /\ messagesByConversation = <<>>
    /\ messageThreadMap = <<>>
    /\ nextId = Len(InitialSessions) + 1
    /\ nextMsg = 1
    /\ backendSessions = InitialSessions
    /\ convLoads = {}
    /\ msgLoads = {}
    /\ creates = {}
    /\ threadCreates = {}
    /\ lastOp = NoOp
    /\ threadLog = <<>>
    /\ addLog = <<>>
    /\ flow = IdleFlow
    /\ sends = 0
    /\ nextSrv = 1
    /\ timers = {}
    /\ ui = InitialUi
    /\ quizCreates = {}
    /\ popup = InitialPopup

Init ==
    /\ conversations = <<>>
    /\ InitRest
    /\ sidebar = InitialSidebar(conversations)
    /\ graph = InitialGraph

----------------------------------------------------------------------------
(* Store actions *)

\* loadMessagesForConversation up to its fetch: the response is in flight
StartMessageLoad(id) == [conv |-> id, msgs |-> BackendMessages(id)]

\* addConversation(conversation), called with a locally synthesised conversation
AddConversationAct ==
    /\ nextId <= MaxId
    /\ conversations' = AddConversation(conversations, NewConversation(nextId))
    /\ selectedConversationId' = nextId
    /\ nextId' = nextId + 1
    /\ lastOp' = Op("addConversation", nextId)
    /\ UNCHANGED <<messagesByConversation, messageThreadMap, nextMsg, backendSessions,
                   convLoads, msgLoads, creates, threadCreates, threadLog,
                   uiVars, pageVars>>

\* deleteConversation(id)
DeleteConversationAct(id) ==
    /\ conversations' = Remaining(conversations, id)
    /\ selectedConversationId' = NewSelectedId(conversations, selectedConversationId, id)
    /\ messagesByConversation' = RemainingMessages(messagesByConversation, id)
    /\ lastOp' = Op("deleteConversation", id)
    /\ UNCHANGED <<messageThreadMap, netVars, threadLog,
                   uiVars, pageVars>>

\* selectConversation(id): the set, then the start of the message load
SelectConversationAct(id) ==
    /\ HasRoom(msgLoads, StartMessageLoad(id))
    /\ selectedConversationId' = id
    /\ conversations' = SelectFlags(conversations, id)
    /\ msgLoads' = msgLoads \cup {StartMessageLoad(id)}
    /\ lastOp' = Op("selectConversation", id)
    /\ UNCHANGED <<messagesByConversation, messageThreadMap, nextId, nextMsg,
                   backendSessions, convLoads, creates, threadCreates, threadLog,
                   uiVars, pageVars>>

\* loadConversations up to its fetch
LoadConversationsStart ==
    /\ HasRoom(convLoads, backendSessions)
    /\ convLoads' = convLoads \cup {backendSessions}
    /\ lastOp' = Op("loadConversations", Null)
    /\ UNCHANGED <<storeVars, nextId, nextMsg, backendSessions, msgLoads, creates,
                   threadCreates, threadLog,
                   uiVars, pageVars>>

\* loadConversations after a 2xx response: the list is replaced wholesale
LoadConversationsDone(list) ==
    /\ list \in convLoads
    /\ convLoads' = convLoads \ {list}
    /\ conversations' = LoadedConversations(conversations, list)
    /\ lastOp' = Op("loadConversationsDone", Null)
    /\ UNCHANGED <<selectedConversationId, messagesByConversation, messageThreadMap,
                   nextId, nextMsg, backendSessions, msgLoads, creates, threadCreates,
                   threadLog,
                   uiVars, pageVars>>

\* loadConversations after a rejected fetch or a non-2xx response: logged only
LoadConversationsFail(list) ==
    /\ list \in convLoads
    /\ convLoads' = convLoads \ {list}
    /\ lastOp' = Op("loadConversationsFail", Null)
    /\ UNCHANGED <<storeVars, nextId, nextMsg, backendSessions, msgLoads, creates,
                   threadCreates, threadLog,
                   uiVars, pageVars>>

\* loadMessagesForConversation after a 2xx response
LoadMessagesDone(r) ==
    /\ r \in msgLoads
    /\ msgLoads' = msgLoads \ {r}
    /\ messagesByConversation' =
           SetMessagesForConversation(messagesByConversation, r.conv,
                                      TransformedMessages(r.msgs))
    /\ lastOp' = Op("loadMessagesDone", r.conv)
    /\ UNCHANGED <<conversations, selectedConversationId, messageThreadMap, nextId,
                   nextMsg, backendSessions, convLoads, creates, threadCreates, threadLog,
                   uiVars, pageVars>>

\* loadMessagesForConversation after a failure: logged only
LoadMessagesFail(r) ==
    /\ r \in msgLoads
    /\ msgLoads' = msgLoads \ {r}
    /\ messagesByConversation' = KeptMessages(messagesByConversation, r.conv)
    /\ lastOp' = Op("loadMessagesFail", r.conv)
    /\ UNCHANGED <<conversations, selectedConversationId, messageThreadMap, nextId,
                   nextMsg, backendSessions, convLoads, creates, threadCreates, threadLog,
                   uiVars, pageVars>>

\* addMessage(message), with a message of the caller's making
AddMessageAct(c, role, content) ==
    /\ nextMsg <= MaxMsgs
    /\ messagesByConversation' =
           AddMessage(messagesByConversation, Message(MsgId("ts", nextMsg), content, role, c))
    /\ nextMsg' = nextMsg + 1
    /\ lastOp' = Op("addMessage", c)
    /\ UNCHANGED <<conversations, selectedConversationId, messageThreadMap, nextId,
                   backendSessions, convLoads, msgLoads, creates, threadCreates, threadLog,
                   uiVars, pageVars>>

\* addMessage(message) again, the call also written to the log of calls
AddMessageLogged(c, role, content) ==
    /\ nextMsg <= MaxMsgs
    /\ messagesByConversation' =
           AddMessage(messagesByConversation, Message(MsgId("ts", nextMsg), content, role, c))
    /\ addLog' = Append(addLog, Message(MsgId("ts", nextMsg), content, role, c))
    /\ nextMsg' = nextMsg + 1
    /\ lastOp' = Op("addMessage", c)
    /\ UNCHANGED <<conversations, selectedConversationId, messageThreadMap, nextId,
                   backendSessions, convLoads, msgLoads, creates, threadCreates, threadLog,
                   flow, sends, nextSrv, timers, ui, quizCreates, pageVars>>

\* the message argument of a create that no thread asked for
NoMessage == Message(NoId, <<>>, "user", Null)

CreateRequest(ok, id, caller, msg, select, call, mode) ==
    [ok |-> ok, id |-> id, caller |-> caller, msg |-> msg, select |-> select,
     call |-> call, mode |-> mode]

\* POST .../sessions reaching the backend: a session is allocated unless it fails
IssueCreate(ok, caller, msg, select, call, mode) ==
    /\ nextId <= MaxId
    /\ LET r == CreateRequest(ok, IF ok THEN nextId ELSE Null, caller, msg, select, call,
                              mode)
       IN  /\ r \in creates \/ Cardinality(creates) < MaxCreates
           /\ creates' = creates \cup {r}
    /\ nextId' = IF ok THEN nextId + 1 ELSE nextId
    /\ backendSessions' = IF ok THEN Append(backendSessions, nextId) ELSE backendSessions

\* createNewConversation(userId) up to its fetch
CreateNewConversationStart(ok) ==
    /\ IssueCreate(ok, "new", NoMessage, FALSE, 0, "none")
    /\ lastOp' = Op("createNewConversationStart", Null)
    /\ UNCHANGED <<storeVars, nextMsg, convLoads, msgLoads, threadCreates, threadLog,
                   uiVars, pageVars>>

\* a create that puts the new conversation at the end of the list
CreatedConversationsLast(convs, id) == DeactivateAll(convs) \o <<NewConversation(id)>>

\* createNewConversation after a 2xx response: the set of lines 209-212
CreatedConversations(convs, id) == <<NewConversation(id)>> \o DeactivateAll(convs)

CreateNewConversationDone(r) ==
    /\ r \in creates /\ r.ok /\ r.caller = "new"
    /\ creates' = creates \ {r}
    /\ conversations' = CreatedConversations(conversations, r.id)
    /\ selectedConversationId' = r.id
    /\ lastOp' = Op("createNewConversation", r.id)
    /\ UNCHANGED <<messagesByConversation, messageThreadMap, nextId, nextMsg,
                   backendSessions, convLoads, msgLoads, threadCreates, threadLog,
                   uiVars, pageVars>>

\* createNewConversation after a failure: logged and re-thrown, nothing set
CreateNewConversationFail(r) ==
    /\ r \in creates /\ ~r.ok /\ r.caller = "new"
    /\ creates' = creates \ {r}
    /\ lastOp' = Op("createNewConversationFail", Null)
    /\ UNCHANGED <<storeVars, nextId, nextMsg, backendSessions, convLoads, msgLoads,
                   threadCreates, threadLog,
                   uiVars, pageVars>>

\* has the first call for this message resolved already?
FirstResolved(m) == Len(CallsOf(m)) >= 1 /\ CallsOf(m)[1].state = "resolved"

\* openOrCreateThreadForMessage, the branch of an existing mapping (lines 236-243)
OpenThreadExisting(message, selectThread) ==
    /\ message \in StoredMessages(messagesByConversation)
    /\ Len(CallsOf(message.id)) < MaxOpenCalls
    /\ GetThreadForMessage(messageThreadMap, message.id) # Null
    /\ LET existingThreadId == GetThreadForMessage(messageThreadMap, message.id)
       IN  /\ IF selectThread
              THEN /\ HasRoom(msgLoads, StartMessageLoad(existingThreadId))
                   /\ selectedConversationId' = existingThreadId
                   /\ conversations' = SelectFlags(conversations, existingThreadId)
                   /\ msgLoads' = msgLoads \cup {StartMessageLoad(existingThreadId)}
              ELSE UNCHANGED <<selectedConversationId, conversations, msgLoads>>
           /\ threadLog' = LogCall(message.id,
                  ThreadCall("resolved", GetConversationById(conversations', existingThreadId),
                             FALSE, FirstResolved(message.id), TRUE))
           /\ lastOp' = Op("openOrCreateThreadForMessage", existingThreadId)
    /\ UNCHANGED <<messagesByConversation, messageThreadMap, nextId, nextMsg,
                   backendSessions, convLoads, creates, threadCreates,
                   uiVars, pageVars>>

\* openOrCreateThreadForMessage without a mapping, up to createNewConversation's fetch
OpenThreadStart(message, selectThread, ok) ==
    /\ message \in StoredMessages(messagesByConversation)
    /\ Len(CallsOf(message.id)) < MaxOpenCalls
    /\ GetThreadForMessage(messageThreadMap, message.id) = Null
    /\ IssueCreate(ok, "thread", message, selectThread, Len(CallsOf(message.id)) + 1,
                   "none")
    /\ threadLog' = LogCall(message.id,
           ThreadCall("pending", Null, TRUE, FirstResolved(message.id), TRUE))
    /\ lastOp' = Op("openOrCreateThreadForMessageStart", Null)
    /\ UNCHANGED <<storeVars, nextMsg, convLoads, msgLoads, threadCreates,
                   uiVars, pageVars>>

\* the conversations after lines 246-251: created, then the preview text set
ThreadConversations(convs, id, message) ==
    UpdateConversationLastMessage(
        UpdateConversationTitle(CreatedConversations(convs, id), id, "Thread"),
        id, message.content)

\* the messages after lines 253-274: the thread seeded, the source annotated
ThreadMessages(mbc, id, message) ==
    AnnotateThread(
        SetMessagesForConversation(mbc, id, <<SeededAssistantMessage(message, id)>>),
        message, id)

\* openOrCreateThreadForMessage resumed by createNewConversation's result
OpenThreadDone(r) ==
    /\ r \in creates /\ r.ok /\ r.caller = "thread"
    /\ creates' = creates \ {r}
    /\ messagesByConversation' = ThreadMessages(messagesByConversation, r.id, r.msg)
    /\ messageThreadMap' = LinkMessageToThread(messageThreadMap, r.msg.id, r.id)
    /\ selectedConversationId' = r.id
    /\ IF r.select
       THEN /\ HasRoom(msgLoads, StartMessageLoad(r.id))
            /\ conversations' =
                   SelectFlags(ThreadConversations(conversations, r.id, r.msg), r.id)
            /\ msgLoads' = msgLoads \cup {StartMessageLoad(r.id)}
       ELSE /\ conversations' = ThreadConversations(conversations, r.id, r.msg)
            /\ UNCHANGED msgLoads
    /\ threadLog' = [threadLog EXCEPT ![r.msg.id][r.call] =
           [@ EXCEPT !.state = "resolved", !.ret = r.id, !.mapSame = FALSE]]
    /\ lastOp' = Op("openOrCreateThreadForMessage", r.id)
    /\ UNCHANGED <<nextId, nextMsg, backendSessions, convLoads, threadCreates,
                   uiVars, pageVars>>

\* openOrCreateThreadForMessage rejected by createNewConversation's re-throw
OpenThreadFail(r) ==
    /\ r \in creates /\ ~r.ok /\ r.caller = "thread"
    /\ creates' = creates \ {r}
    /\ threadLog' = [threadLog EXCEPT ![r.msg.id][r.call] = [@ EXCEPT !.state = "rejected"]]
    /\ lastOp' = Op("openOrCreateThreadForMessageFail", Null)
    /\ UNCHANGED <<storeVars, nextId, nextMsg, backendSessions, convLoads, msgLoads,
                   threadCreates,
                   uiVars, pageVars>>

\* questions a quiz thread can be created with
MaxQuestions == 1

\* createThreadForMessage: `${quizData.quiz_id}-quiz-${index}`, one per question
QuizMessages(quizId, n) ==
    [i \in 1..n |->
        Message([k |-> "quiz", n |-> quizId, s |-> i - 1], <<"q">>, "assistant", quizId)]

\* createThreadForMessage up to its fetch: the backend allocates the quiz id
CreateThreadStart(message, ok) ==
    /\ message \in StoredMessages(messagesByConversation)
    /\ nextId <= MaxId
    /\ LET r == [ok |-> ok, id |-> IF ok THEN nextId ELSE Null, msg |-> message]
       IN  /\ HasRoom(threadCreates, r)
           /\ threadCreates' = threadCreates \cup {r}
    /\ nextId' = IF ok THEN nextId + 1 ELSE nextId
    /\ lastOp' = Op("createThreadForMessageStart", Null)
    /\ UNCHANGED <<storeVars, nextMsg, backendSessions, convLoads, msgLoads, creates,
                   threadLog,
                   uiVars, pageVars>>

\* createThreadForMessage after a 2xx response: the set of lines 331-340
CreateThreadDone(r, n) ==
    /\ r \in threadCreates /\ r.ok
    /\ threadCreates' = threadCreates \ {r}
    /\ messageThreadMap' = LinkMessageToThread(messageThreadMap, r.msg.id, r.id)
    /\ messagesByConversation' =
           SetMessagesForConversation(messagesByConversation, r.id,
               <<SeededAssistantMessage(r.msg, r.id)>> \o QuizMessages(r.id, n))
    /\ lastOp' = Op("createThreadForMessage", r.id)
    /\ UNCHANGED <<conversations, selectedConversationId, nextId, nextMsg,
                   backendSessions, convLoads, msgLoads, creates, threadLog,
                   uiVars, pageVars>>

\* createThreadForMessage after a failure: logged and re-thrown
CreateThreadFail(r) ==
    /\ r \in threadCreates /\ ~r.ok
    /\ threadCreates' = threadCreates \ {r}
    /\ lastOp' = Op("createThreadForMessageFail", Null)
    /\ UNCHANGED <<storeVars, nextId, nextMsg, backendSessions, convLoads, msgLoads,
                   creates, threadLog,
                   uiVars, pageVars>>

----------------------------------------------------------------------------
(* The store under every interleaving of its calls and their responses *)

\* the conversation list, the selection, the message lists and their loads
Next ==
    \/ AddConversationAct
    \/ \E id \in Ids(conversations) : DeleteConversationAct(id)
    \/ \E id \in Ids(conversations) : SelectConversationAct(id)
    \/ LoadConversationsStart
    \/ \E list \in convLoads : LoadConversationsDone(list)
    \/ \E list \in convLoads : LoadConversationsFail(list)
    \/ \E r \in msgLoads : LoadMessagesDone(r)
    \/ \E r \in msgLoads : LoadMessagesFail(r)
    \/ \E ok \in BOOLEAN : CreateNewConversationStart(ok)
    \/ \E r \in creates : CreateNewConversationDone(r)
    \/ \E r \in creates : CreateNewConversationFail(r)

Spec == Init /\ [][Next]_vars

\* the threads of messages, with the calls that add, select and delete conversations
\* the messages a thread is opened for: those that are neither a seed nor a
\* quiz question
ThreadSources(mbc) == {m \in StoredMessages(mbc) : m.id.s = 0 /\ m.id.k # "quiz"}

NextThread ==
    \/ LoadConversationsStart
    \/ \E list \in convLoads : LoadConversationsDone(list)
    \/ \E c \in Ids(conversations), role \in {"assistant"} : AddMessageAct(c, role, <<"m">>)
    \/ \E id \in Ids(conversations) : DeleteConversationAct(id)
    \/ \E m \in ThreadSources(messagesByConversation) : OpenThreadExisting(m, FALSE)
    \/ \E m \in ThreadSources(messagesByConversation), ok \in BOOLEAN :
           OpenThreadStart(m, FALSE, ok)
    \/ \E r \in creates : OpenThreadDone(r)
    \/ \E r \in creates : OpenThreadFail(r)
    \/ \E m \in ThreadSources(messagesByConversation), ok \in BOOLEAN :
           CreateThreadStart(m, ok)
    \/ \E r \in threadCreates, n \in 0..MaxQuestions : CreateThreadDone(r, n)
    \/ \E r \in threadCreates : CreateThreadFail(r)

SpecThread == Init /\ [][NextThread]_vars

----------------------------------------------------------------------------
(* The chat send flow: handleSendMessage of ChatBox *)

\* handleSendMessage invocations the model follows
MaxSends == 2
\* data lines the streams deliver in total
MaxEvents == 4

\* the text the user sends
UserText == <<"q">>
\* "I'm sorry, I'm having trouble connecting to the server. Please try again later."
ApologyText == <<"sorry">>
\* the text fragments of the chunk events
Chunks == {<<"H", "i">>, <<"t">>}

\* ids the backend gives the request numbered n: `${user_message_id}_assistant`
\* for the placeholder, chatbot_message_id for the final message
PlaceholderId(n) == MsgId("ph", n)
ChatbotId(n) == MsgId("srv", n)

Event(status, id, content, title) ==
    [status |-> status, id |-> id, content |-> content, title |-> title]

\* the data lines the stream of request n can deliver; "bad" is a line whose
\* JSON does not parse
StreamEvents(n) ==
    {Event("started", PlaceholderId(n), <<>>, "")}
    \cup {Event("chunk", NoId, c, "") : c \in Chunks}
    \cup {Event("completed", ChatbotId(n), <<>>, t) : t \in {"", "Generated title"}}
    \cup {Event("error", NoId, <<>>, ""), Event("bad", NoId, <<>>, "")}

\* a chunk handler that keeps only the last fragment
AccumulateLast(full, e) == IF e.status = "chunk" THEN e.content ELSE full

\* fullResponse after an event: fullResponse += data.content on a chunk
Accumulate(full, e) == IF e.status = "chunk" THEN full \o e.content ELSE full

\* a handler that forgets the placeholder when a line does not parse
EventPlaceholderReset(placeholder, e) ==
    IF e.status = "started" THEN e.id ELSE IF e.status = "bad" THEN NoId ELSE placeholder

\* placeholderAssistantId after an event: set by a started event
EventPlaceholder(placeholder, e) == IF e.status = "started" THEN e.id ELSE placeholder

\* an event handler whose error event reaches the fallback of the outer catch
EventMessagesErrorFallback(mbc, conv, placeholder, full, e) ==
    CASE e.status = "started" ->
             AddMessage(mbc, Message(e.id, <<>>, "assistant", conv))
      [] e.status = "chunk" -> UpdateMessageContent(mbc, placeholder, Accumulate(full, e))
      [] e.status = "completed" -> UpdateMessageId(mbc, placeholder, e.id)
      [] e.status = "error" ->
             AddMessage(mbc, Message(MsgId("ts", 0), ApologyText, "assistant", conv))
      [] OTHER -> mbc

\* the store's messages after one data line is handled (lines 174-235): the
\* throw of an error event is caught by the catch around the same line
EventMessages(mbc, conv, placeholder, full, e) ==
    CASE e.status = "started" ->
             AddMessage(mbc, Message(e.id, <<>>, "assistant", conv))
      [] e.status = "chunk" -> UpdateMessageContent(mbc, placeholder, Accumulate(full, e))
      [] e.status = "completed" -> UpdateMessageId(mbc, placeholder, e.id)
      [] OTHER -> mbc

\* the conversations after one data line is handled: the preview text follows
\* the chunks, a generated title is applied on completion
EventConversations(convs, conv, full, e) ==
    CASE e.status = "chunk" -> UpdateConversationLastMessage(convs, conv, Accumulate(full, e))
      [] e.status = "completed" /\ e.title # "" /\ e.title # "New conversation" ->
             UpdateConversationTitle(convs, conv, e.title)
      [] OTHER -> convs

\* the callback a completed event hands to setTimeout(..., 100)
\* (the message it builds is identified by its id; selected is the
\* selectedConversationId its handleOpenSidePopup closes over)
Timer(conv, id, selected) == [conversationId |-> conv, id |-> id, selected |-> selected]
EventTimers(ts, conv, selected, e) ==
    IF e.status = "completed" THEN ts \cup {Timer(conv, e.id, selected)} ELSE ts

\* currentConv?.quizMode === 'strict'
IsStrict(convs, id) ==
    \E i \in 1..Len(convs) : convs[i].id = id /\ convs[i].quizMode = "strict"

\* the number of user messages among the panel's messages
UserResponseCount(messages) ==
    Cardinality({i \in 1..Len(messages) : messages[i] = "user"})

\* lines 130-153: the user's message appended, the preview set, the request sent
SendRequest(convs, mbc, conv, closure) ==
    /\ nextMsg <= MaxMsgs
    /\ messagesByConversation' =
           AddMessage(mbc, Message(MsgId("ts", nextMsg), UserText, "user", conv))
    /\ conversations' = UpdateConversationLastMessage(convs, conv, UserText)
    /\ nextMsg' = nextMsg + 1
    /\ nextSrv' = nextSrv + 1
    /\ ui' = [ui EXCEPT !.isLoading = TRUE]
    /\ flow' = [IdleFlow EXCEPT !.pc = "fetching", !.conversationId = conv,
                                !.reads = flow.reads, !.selected = closure,
                                !.base = GetMessagesForConversation(messagesByConversation', conv),
                                !.before = messagesByConversation']

\* handleSendMessage with a conversation selected, up to the fetch of /api/chat
SendStart ==
    /\ flow.pc \in {"idle", "ended", "failed"}
    /\ sends < MaxSends
    /\ ~ui.isQuizBlocking
    /\ selectedConversationId # Null
    /\ sends' = sends + 1
    /\ SendRequest(conversations, messagesByConversation, selectedConversationId,
                   selectedConversationId)
    /\ lastOp' = NoOp
    /\ UNCHANGED <<selectedConversationId, messageThreadMap, nextId, backendSessions,
                   convLoads, msgLoads, creates, threadCreates, threadLog, addLog,
                   timers, quizCreates, pageVars>>

\* handleSendMessage with no conversation selected, up to the fetch of
\* createOrSelectEmptyConversation, which always asks for a new session
SendStartCreate(ok) ==
    /\ flow.pc \in {"idle", "ended", "failed"}
    /\ sends < MaxSends
    /\ ~ui.isQuizBlocking
    /\ selectedConversationId = Null
    /\ sends' = sends + 1
    /\ IssueCreate(ok, "send", NoMessage, FALSE, 0, "none")
    /\ flow' = [IdleFlow EXCEPT !.pc = "creating", !.reads = flow.reads]
    /\ lastOp' = NoOp
    /\ UNCHANGED <<storeVars, nextMsg, nextSrv, convLoads, msgLoads, threadCreates,
                   threadLog, addLog, timers, ui, quizCreates, pageVars>>

\* ... resumed by the new conversation (lines 109-112, then 130-153)
SendCreated(r) ==
    /\ flow.pc = "creating"
    /\ r \in creates /\ r.ok /\ r.caller = "send"
    /\ creates' = creates \ {r}
    /\ selectedConversationId' = r.id
    /\ SendRequest(CreatedConversations(conversations, r.id), messagesByConversation, r.id,
                   Null)
    /\ lastOp' = NoOp
    /\ UNCHANGED <<messageThreadMap, nextId, backendSessions, convLoads, msgLoads,
                   threadCreates, threadLog, addLog, sends, timers, quizCreates, pageVars>>

\* ... resumed by the failure: a local conversation is added instead (113-127)
SendCreateFailed(r) ==
    /\ flow.pc = "creating"
    /\ r \in creates /\ ~r.ok /\ r.caller = "send"
    /\ nextId <= MaxId
    /\ creates' = creates \ {r}
    /\ selectedConversationId' = nextId
    /\ nextId' = nextId + 1
    /\ SendRequest(AddConversation(conversations, NewConversation(nextId)),
                   messagesByConversation, nextId, Null)
    /\ lastOp' = NoOp
    /\ UNCHANGED <<messageThreadMap, backendSessions, convLoads, msgLoads,
                   threadCreates, threadLog, addLog, sends, timers, quizCreates, pageVars>>

\* the catch of lines 240-252 without the finally: isLoading is left as it is
SendFallbackNoFinally ==
    /\ messagesByConversation' =
           AddMessage(messagesByConversation,
               Message(MsgId("ts", nextMsg), ApologyText, "assistant", flow.conversationId))
    /\ conversations' =
           UpdateConversationLastMessage(conversations, flow.conversationId, ApologyText)
    /\ nextMsg' = nextMsg + 1
    /\ ui' = ui
    /\ flow' = [flow EXCEPT !.pc = "failed", !.before = messagesByConversation]

\* the catch and the finally of lines 240-263: the apology appended, the
\* preview set to it, isLoading cleared
SendFallback ==
    /\ messagesByConversation' =
           AddMessage(messagesByConversation,
               Message(MsgId("ts", nextMsg), ApologyText, "assistant", flow.conversationId))
    /\ conversations' =
           UpdateConversationLastMessage(conversations, flow.conversationId, ApologyText)
    /\ nextMsg' = nextMsg + 1
    /\ ui' = [ui EXCEPT !.isLoading = FALSE]
    /\ flow' = [flow EXCEPT !.pc = "failed", !.before = messagesByConversation]

\* the response of /api/chat is 2xx: the reader is taken
SendFetchOk ==
    /\ flow.pc = "fetching"
    /\ flow' = [flow EXCEPT !.pc = "reading"]
    /\ lastOp' = NoOp
    /\ UNCHANGED <<storeVars, netVars, threadLog, addLog, sends, nextSrv, timers, ui,
                   quizCreates, pageVars>>

\* the fetch rejects or the response is not 2xx
SendFetchFail ==
    /\ flow.pc = "fetching"
    /\ SendFallback
    /\ lastOp' = NoOp
    /\ UNCHANGED <<selectedConversationId, messageThreadMap, nextId, backendSessions,
                   convLoads, msgLoads, creates, threadCreates, threadLog, addLog, sends,
                   nextSrv, timers, quizCreates, pageVars>>

\* one reader.read() delivering one data line, which is handled
SendRead(e) ==
    /\ flow.pc = "reading"
    /\ flow.reads < MaxEvents
    /\ messagesByConversation' =
           EventMessages(messagesByConversation, flow.conversationId,
                         flow.placeholderAssistantId, flow.fullResponse, e)
    /\ conversations' =
           EventConversations(conversations, flow.conversationId, flow.fullResponse, e)
    /\ timers' = EventTimers(timers, flow.conversationId, flow.selected, e)
    /\ flow' = [flow EXCEPT !.placeholderAssistantId = EventPlaceholder(@, e),
                            !.fullResponse = Accumulate(@, e),
                            !.events = Append(@, e),
                            !.reads = @ + 1,
                            !.before = messagesByConversation]
    /\ lastOp' = NoOp
    /\ UNCHANGED <<selectedConversationId, messageThreadMap, netVars, threadLog, addLog,
                   sends, nextSrv, ui, quizCreates, pageVars>>

\* reader.read() reports done: the loop ends, the finally clears isLoading
SendReadEnd ==
    /\ flow.pc = "reading"
    /\ flow' = [flow EXCEPT !.pc = "ended", !.before = messagesByConversation]
    /\ ui' = [ui EXCEPT !.isLoading = FALSE]
    /\ lastOp' = NoOp
    /\ UNCHANGED <<storeVars, netVars, threadLog, addLog, sends, nextSrv, timers,
                   quizCreates, pageVars>>

\* reader.read() rejects (the connection drops): the outer catch runs
SendReadFail ==
    /\ flow.pc = "reading"
    /\ SendFallback
    /\ lastOp' = NoOp
    /\ UNCHANGED <<selectedConversationId, messageThreadMap, nextId, backendSessions,
                   convLoads, msgLoads, creates, threadCreates, threadLog, addLog, sends,
                   nextSrv, timers, quizCreates, pageVars>>

----------------------------------------------------------------------------
(* Quiz blocking: the New chat chooser of MessageList, the deferred callback of
   a completed reply, handleOpenSidePopup, handleCloseSidePopup and the
   response count the panel reports. getQuizForMessage and createQuizForMessage
   belong to a store revision that is not among the sources: whether a quiz
   exists and whether its creation succeeds are inputs. *)

\* messages of the panel that the model follows
MaxPanel == 2

Modes == {"strict", "unsupervised"}

\* findEmptyConversation: the first conversation with no entry or no messages
FindEmptyConversation(convs, mbc) ==
    LET empty == {i \in 1..Len(convs) :
                     GetMessagesForConversation(mbc, convs[i].id) = <<>>}
    IN  IF empty = {} THEN Null
        ELSE convs[CHOOSE i \in empty : \A j \in empty : i <= j].id

\* the effect of SidePopup.tsx 204-210 calling handleQuizResponseCountChange:
\* the count is stored, a positive count lifts the block
Reported(u) ==
    LET count == UserResponseCount(u.messages)
    IN  [u EXCEPT !.quizResponseCount = count,
                  !.isQuizBlocking = @ /\ ~(count > 0)]

\* a render of ChatBox: handleQuizResponseCountChange is a new function, so a
\* mounted panel runs its response-count effect again
Rendered(u) == IF u.sidePopupOpen THEN Reported(u) ELSE u

\* handleCloseSidePopup: the block is lifted only if quizResponseCount > 0; the
\* panel is unmounted, its messages are gone
Closed(u) ==
    [u EXCEPT !.sidePopupOpen = FALSE, !.selectedMessageId = NoId,
              !.isQuizBlocking = @ /\ ~(u.quizResponseCount > 0),
              !.messages = <<>>]

\* the end of handleOpenSidePopup (lines 291-294) and the panel's effects: a
\* panel mounted, or a mounted panel given another message, whose response-count
\* effect runs with the messages it still shows before its reset empties them
Opened(u, id) ==
    IF ~u.sidePopupOpen
    THEN Reported([u EXCEPT !.sidePopupOpen = TRUE, !.selectedMessageId = id,
                            !.messages = <<>>])
    ELSE IF u.selectedMessageId = id THEN Reported(u)
    ELSE Reported([Reported([u EXCEPT !.selectedMessageId = id])
                       EXCEPT !.messages = <<>>])

\* the effect of lines 308-312: a changed selection closes an open panel
SelectionChanged(u, old, new) ==
    IF old # new /\ u.sidePopupOpen THEN Closed(u) ELSE u

\* handleQuizModeSelect(mode) finding an empty conversation: its quizMode is
\* set and it is selected
NewChatReuse(mode) ==
    LET emptyConv == FindEmptyConversation(conversations, messagesByConversation)
    IN  /\ emptyConv # Null
        /\ HasRoom(msgLoads, StartMessageLoad(emptyConv))
        /\ conversations' =
               SelectFlags(UpdateConversationQuizMode(conversations, emptyConv, mode),
                           emptyConv)
        /\ selectedConversationId' = emptyConv
        /\ msgLoads' = msgLoads \cup {StartMessageLoad(emptyConv)}
        /\ ui' = SelectionChanged(ui, selectedConversationId, emptyConv)
        /\ lastOp' = Op("selectConversation", emptyConv)
        /\ UNCHANGED <<messagesByConversation, messageThreadMap, nextId, nextMsg,
                       backendSessions, convLoads, creates, threadCreates, threadLog,
                       addLog, flow, sends, nextSrv, timers, quizCreates, pageVars>>

\* handleQuizModeSelect(mode) finding none, up to the fetch of
\* createNewConversation('1', mode)
NewChatCreate(mode, ok) ==
    /\ FindEmptyConversation(conversations, messagesByConversation) = Null
    /\ IssueCreate(ok, "chat", NoMessage, FALSE, 0, mode)
    /\ lastOp' = NoOp
    /\ UNCHANGED <<storeVars, nextMsg, convLoads, msgLoads, threadCreates, threadLog,
                   uiVars, pageVars>>

\* ... resumed by the new conversation: createNewConversation(userId) of the
\* store takes no mode, the conversation it inserts carries none
NewChatCreated(r) ==
    /\ r \in creates /\ r.ok /\ r.caller = "chat"
    /\ creates' = creates \ {r}
    /\ conversations' = CreatedConversations(conversations, r.id)
    /\ selectedConversationId' = r.id
    /\ ui' = SelectionChanged(ui, selectedConversationId, r.id)
    /\ lastOp' = NoOp
    /\ UNCHANGED <<messagesByConversation, messageThreadMap, nextId, nextMsg,
                   backendSessions, convLoads, msgLoads, threadCreates, threadLog,
                   addLog, flow, sends, nextSrv, timers, quizCreates, pageVars>>

\* ... resumed by the failure: a local conversation carrying the mode is added
NewChatFailed(r) ==
    /\ r \in creates /\ ~r.ok /\ r.caller = "chat"
    /\ nextId <= MaxId
    /\ creates' = creates \ {r}
    /\ conversations' =
           AddConversation(conversations,
                           [NewConversation(nextId) EXCEPT !.quizMode = r.mode])
    /\ selectedConversationId' = nextId
    /\ nextId' = nextId + 1
    /\ ui' = SelectionChanged(ui, selectedConversationId, nextId)
    /\ lastOp' = NoOp
    /\ UNCHANGED <<messagesByConversation, messageThreadMap, nextMsg, backendSessions,
                   convLoads, msgLoads, threadCreates, threadLog, addLog, flow, sends,
                   nextSrv, timers, quizCreates, pageVars>>

\* the callback of setTimeout(..., 100) (lines 206-228): in a strict
\* conversation the input is blocked, the count reset and handleOpenSidePopup
\* called, which awaits createQuizForMessage when the message has no quiz and
\* its closure holds a selected conversation
TimerFire(t, hasQuiz) ==
    /\ t \in timers
    /\ timers' = timers \ {t}
    /\ IF ~IsStrict(conversations, t.conversationId)
       THEN UNCHANGED <<ui, quizCreates>>
       ELSE LET raised == Rendered([ui EXCEPT !.isQuizBlocking = TRUE,
                                              !.quizResponseCount = 0,
                                              !.owed = TRUE,
                                              !.blockedBy = t.conversationId])
            IN  IF ~hasQuiz /\ t.selected # Null
                THEN /\ quizCreates' = quizCreates \cup {[id |-> t.id]}
                     /\ ui' = raised
                ELSE /\ ui' = Opened(raised, t.id)
                     /\ UNCHANGED quizCreates
    /\ lastOp' = NoOp
    /\ UNCHANGED <<storeVars, netVars, threadLog, addLog, flow, sends, nextSrv, pageVars>>

\* createQuizForMessage resolves: the panel is opened for the message
QuizCreateDone(q) ==
    /\ q \in quizCreates
    /\ quizCreates' = quizCreates \ {q}
    /\ ui' = Opened(ui, q.id)
    /\ lastOp' = NoOp
    /\ UNCHANGED <<storeVars, netVars, threadLog, addLog, flow, sends, nextSrv, timers, pageVars>>

\* createQuizForMessage rejects: handleOpenSidePopup returns, no panel is opened
QuizCreateFail(q) ==
    /\ q \in quizCreates
    /\ quizCreates' = quizCreates \ {q}
    /\ lastOp' = NoOp
    /\ UNCHANGED <<storeVars, netVars, threadLog, addLog, flow, sends, nextSrv, timers,
                   ui, pageVars>>

\* the panel's handleSendMessage: the user's answer is appended to its messages
PanelAnswer ==
    /\ ui.sidePopupOpen
    /\ Len(ui.messages) < MaxPanel
    /\ ui' = Rendered([ui EXCEPT !.messages = Append(@, "user"), !.owed = FALSE])
    /\ lastOp' = NoOp
    /\ UNCHANGED <<storeVars, netVars, threadLog, addLog, flow, sends, nextSrv, timers,
                   quizCreates, pageVars>>

\* a question, an evaluation or the panel's apology is appended to its messages
PanelReply ==
    /\ ui.sidePopupOpen
    /\ Len(ui.messages) < MaxPanel
    /\ ui' = Rendered([ui EXCEPT !.messages = Append(@, "assistant")])
    /\ lastOp' = NoOp
    /\ UNCHANGED <<storeVars, netVars, threadLog, addLog, flow, sends, nextSrv, timers,
                   quizCreates, pageVars>>

\* the panel's close button: handleCloseSidePopup
ClosePopup ==
    /\ ui.sidePopupOpen
    /\ ui' = Closed(ui)
    /\ lastOp' = Op("handleCloseSidePopup", Null)
    /\ UNCHANGED <<storeVars, netVars, threadLog, addLog, flow, sends, nextSrv, timers,
                   quizCreates, pageVars>>

\* the data lines a well-formed reply can deliver next, read being those read:
\* started, then chunks, then completed
ReplyEvents(n, read) ==
    IF read = <<>> THEN {Event("started", PlaceholderId(n), <<>>, "")}
    ELSE IF read[Len(read)].status = "completed" THEN {}
    ELSE {Event("chunk", NoId, <<"t">>, ""), Event("completed", ChatbotId(n), <<>>, "")}

\* chats begun from the chooser, their replies and their quizzes
NextQuiz ==
    \/ \E mode \in Modes : NewChatReuse(mode)
    \/ \E mode \in Modes, ok \in BOOLEAN : NewChatCreate(mode, ok)
    \/ \E r \in creates : NewChatCreated(r)
    \/ \E r \in creates : NewChatFailed(r)
    \/ SendStart
    \/ SendFetchOk
    \/ \E e \in ReplyEvents(nextSrv - 1, flow.events) : SendRead(e)
    \/ SendReadEnd
    \/ \E t \in timers, hasQuiz \in BOOLEAN : TimerFire(t, hasQuiz)
    \/ \E q \in quizCreates : QuizCreateDone(q)
    \/ \E q \in quizCreates : QuizCreateFail(q)
    \/ PanelAnswer
    \/ PanelReply
    \/ ClosePopup

SpecQuiz == Init /\ [][NextQuiz]_vars

\* C8: once the reply of a strict conversation has completed and its deferred
\* callback has run, the chat input is blocked, and it stays blocked until an
\* answer is submitted in the quiz panel and reported by it; closing the panel
\* with no answer does not unblock.
BlockedUntilAnswered == ui.owed => ui.isQuizBlocking

\* the send flow alone: no other caller touches the store meanwhile
NextChat ==
    \/ SendStart
    \/ \E ok \in BOOLEAN : SendStartCreate(ok)
    \/ \E r \in creates : SendCreated(r)
    \/ \E r \in creates : SendCreateFailed(r)
    \/ SendFetchOk
    \/ SendFetchFail
    \/ \E e \in StreamEvents(nextSrv - 1) : SendRead(e)
    \/ SendReadEnd
    \/ SendReadFail

SpecChat == Init /\ [][NextChat]_vars

\* the stream the flow has read is started, then chunks only, then completed
WellFormedStream(events) ==
    /\ Len(events) >= 2
    /\ events[1].status = "started"
    /\ events[Len(events)].status = "completed"
    /\ \A i \in 2..(Len(events) - 1) : events[i].status = "chunk"

\* the chunk contents of a stream, concatenated in order
RECURSIVE ChunkText(_)
ChunkText(events) ==
    IF events = <<>> THEN <<>>
    ELSE (IF Head(events).status = "chunk" THEN Head(events).content ELSE <<>>)
         \o ChunkText(Tail(events))

\* the messages the flow's conversation holds beyond those it held when the
\* request was sent
AddedByFlow ==
    LET msgs == GetMessagesForConversation(messagesByConversation, flow.conversationId)
    IN  SubSeq(msgs, Len(flow.base) + 1, Len(msgs))

\* C5: once a stream of a started event, chunk events and a completed event
\* carrying chatbot_message_id X has been read to its end, the conversation
\* holds exactly one message added by the flow: an assistant message whose
\* content is the chunks concatenated in order and whose id is X; no stored
\* message keeps the placeholder id.
StreamYieldsOneAssistantMessage ==
    (flow.pc = "ended" /\ WellFormedStream(flow.events)) =>
        LET msgs == GetMessagesForConversation(messagesByConversation, flow.conversationId)
            added == AddedByFlow
            X == flow.events[Len(flow.events)].id
        IN  /\ SubSeq(msgs, 1, Len(flow.base)) = flow.base
            /\ Len(added) = 1
            /\ added[1].role = "assistant"
            /\ added[1].content = ChunkText(flow.events)
            /\ added[1].id = X
            /\ \A m \in StoredMessages(messagesByConversation) :
                   m.id # flow.events[1].id

\* C5 witness: a stream of started, two different chunks and completed was read
TwoChunkStreamEnded ==
    /\ flow.pc = "ended"
    /\ WellFormedStream(flow.events)
    /\ Len(flow.events) = 4
    /\ flow.events[2].content # flow.events[3].content
    /\ Len(AddedByFlow) = 1

\* an error event with no started event before it was the last line handled
ErrorBeforeStarted ==
    /\ flow.pc = "reading"
    /\ flow.events # <<>>
    /\ flow.events[Len(flow.events)].status = "error"
    /\ \A i \in 1..Len(flow.events) : flow.events[i].status # "started"

\* C6: handling an error event that no started event preceded leaves the stored
\* messages as they were: no placeholder is created, no assistant message is
\* added, no content or id is changed.
ErrorEventAddsNothing ==
    ErrorBeforeStarted =>
        /\ messagesByConversation = flow.before
        /\ flow.placeholderAssistantId = NoId
        /\ AddedByFlow = <<>>

\* C6 witness: an error event was the first line of a stream
ErrorFirstHandled ==
    /\ ErrorBeforeStarted
    /\ Len(flow.events) = 1
    /\ Len(flow.base) >= 1

\* C7: once an error event has been read, the flow is aborted, with no later
\* event of the stream handled, and the apology is the conversation's last
\* message.
ErrorEventAborts ==
    \A i \in 1..Len(flow.events) :
        flow.events[i].status = "error" =>
            LET msgs == GetMessagesForConversation(messagesByConversation,
                                                   flow.conversationId)
            IN  /\ flow.pc = "failed"
                /\ Len(flow.events) = i
                /\ msgs # <<>>
                /\ msgs[Len(msgs)].role = "assistant"
                /\ msgs[Len(msgs)].content = ApologyText

\* message texts a caller appends
Texts == {<<>>, <<"a">>, <<"b">>}

\* addMessage calls alone, to any conversation id, from the store as constructed
NextAppend ==
    \E c \in 1..MaxId, role \in {"user", "assistant"}, content \in Texts :
        AddMessageLogged(c, role, content)

SpecAppend == Init /\ [][NextAppend]_vars

----------------------------------------------------------------------------
(* Claims about the conversation list and the selection *)

\* C1: after selectConversation(id) the selection is id, a conversation is
\* flagged active exactly when its id is id, so at most one conversation (id)
\* is flagged and it is the one whose id was passed.
SelectMarksOnlyChosen ==
    lastOp.op = "selectConversation" =>
        /\ selectedConversationId = lastOp.id
        /\ \A i \in 1..Len(conversations) :
               conversations[i].isActive <=> (conversations[i].id = lastOp.id)
        /\ ActiveIds(conversations) \subseteq {lastOp.id}

\* C1 witness: a select among several conversations, another one listed first
SelectAmongSeveral ==
    /\ lastOp.op = "selectConversation"
    /\ Len(conversations) >= 2
    /\ conversations[1].id # lastOp.id
    /\ lastOp.id \in ActiveIds(conversations)

\* C2: deleting the selected conversation selects the first conversation that
\* remains in list order, or null when none remains; deleting another
\* conversation leaves the selection as it was.
DeleteReselectsFirst ==
    lastOp.op = "deleteConversation" =>
        IF lastOp.prev = lastOp.id
        THEN selectedConversationId =
                 (IF Len(conversations) > 0 THEN conversations[1].id ELSE Null)
        ELSE selectedConversationId = lastOp.prev

\* C2 witness: the selected conversation deleted while another one remains
DeletedSelectedWithRest ==
    /\ lastOp.op = "deleteConversation"
    /\ lastOp.prev = lastOp.id
    /\ Len(conversations) >= 1
    /\ selectedConversationId = conversations[1].id

\* C9: whenever a conversation is selected, exactly one conversation is flagged
\* active and it is the selected one.
SelectionFlagsExactlyOne ==
    selectedConversationId # Null =>
        /\ Cardinality({i \in 1..Len(conversations) : conversations[i].isActive}) = 1
        /\ ActiveIds(conversations) = {selectedConversationId}

----------------------------------------------------------------------------
(* Claims about messages and threads *)

\* C3: after any sequence of addMessage calls, the messages read back for a
\* conversation are exactly the messages added with that conversationId, in the
\* order of the calls.
AppendOrderKept ==
    \A c \in 1..MaxId :
        GetMessagesForConversation(messagesByConversation, c) =
            SelectSeq(addLog, LAMBDA m : m.conversationId = c)

\* C3 witness: two different messages appended to one conversation
TwoAppended ==
    \E c \in 1..MaxId :
        /\ Len(GetMessagesForConversation(messagesByConversation, c)) >= 2
        /\ messagesByConversation[c][1].content # messagesByConversation[c][2].content

\* C4: a second openOrCreateThreadForMessage call for a message, begun after the
\* first has resolved, returns a conversation with the id the first returned,
\* issues no session-create request and leaves the message's mapping as it was.
SecondOpenSameThread ==
    \A m \in DOMAIN threadLog :
        (/\ Len(threadLog[m]) >= 2
         /\ threadLog[m][2].afterResolved
         /\ threadLog[m][2].state = "resolved")
        => /\ threadLog[m][2].ret # Null
           /\ threadLog[m][2].ret = threadLog[m][1].ret
           /\ ~threadLog[m][2].issued
           /\ threadLog[m][2].mapSame

\* C10: no thread id held in the message -> thread mapping is the id of a
\* conversation of the main list.
ThreadsOutsideList ==
    \A m \in DOMAIN messageThreadMap :
        messageThreadMap[m] \notin Ids(conversations)

\* C11: every message id occurs in the message list of one conversation only,
\* and every stored message sits in the list keyed by its own conversationId.
MessageInOneConversation ==
    \A c \in DOMAIN messagesByConversation :
        \A i \in 1..Len(messagesByConversation[c]) :
            /\ messagesByConversation[c][i].conversationId = c
            /\ \A d \in DOMAIN messagesByConversation \ {c} :
                   \A j \in 1..Len(messagesByConversation[d]) :
                       messagesByConversation[d][j].id # messagesByConversation[c][i].id

\* C15: for every message, at most one openOrCreateThreadForMessage call has a
\* thread conversation created by the backend, whatever the interleaving of the
\* calls (a request that failed created nothing and is not counted).
ThreadCreatedOncePerMessage ==
    \A m \in DOMAIN threadLog :
        Cardinality({i \in 1..Len(threadLog[m]) :
                        /\ threadLog[m][i].issued
                        /\ threadLog[m][i].state = "resolved"
                        /\ threadLog[m][i].ret # Null}) <= 1

----------------------------------------------------------------------------
(* Claims about the loads and the creation of conversations *)

\* C12: a selectConversation(id) step leaves a message load for id in flight; a
\* load that succeeds leaves under id the backend's messages, as many and in the
\* backend's order; a load that fails leaves the list of id and the rest of the
\* store as they were (the failure is caught, nothing reaches the caller).
SelectLoadsMessages ==
    [][/\ lastOp'.op = "selectConversation" =>
              StartMessageLoad(lastOp'.id) \in msgLoads'
       /\ lastOp'.op = "loadMessagesDone" =>
              LET got == GetMessagesForConversation(messagesByConversation', lastOp'.id)
                  sent == BackendMessages(lastOp'.id)
              IN  /\ Len(got) = Len(sent)
                  /\ \A i \in 1..Len(sent) :
                         /\ got[i].id = sent[i].id
                         /\ got[i].content = sent[i].content
                         /\ sent[i].role # "" => got[i].role = sent[i].role
                  /\ \A c \in DOMAIN messagesByConversation \ {lastOp'.id} :
                         /\ c \in DOMAIN messagesByConversation'
                         /\ messagesByConversation'[c] = messagesByConversation[c]
       /\ lastOp'.op = "loadMessagesFail" => UNCHANGED storeVars]_vars

\* C12 witness: a load failed for a conversation whose messages were loaded
\* before, and they are still stored
FailedLoadKeptMessages ==
    /\ lastOp.op = "loadMessagesFail"
    /\ Len(GetMessagesForConversation(messagesByConversation, lastOp.id)) = 2

\* C13: a loadConversations that succeeds leaves the backend's list (one
\* conversation per backend session, same order, none active) and nothing of the
\* list held before; one that fails leaves the conversation list as it was.
LoadReplacesConversations ==
    [][/\ lastOp'.op = "loadConversationsDone" =>
              \E list \in convLoads \ convLoads' :
                  /\ Len(conversations') = Len(list)
                  /\ \A i \in 1..Len(list) :
                         /\ conversations'[i].id = list[i]
                         /\ ~conversations'[i].isActive
       /\ lastOp'.op = "loadConversationsFail" => conversations' = conversations]_vars

\* C13 witness: a load succeeded and dropped the selected conversation, which
\* the backend's list (taken before it was created) does not name
LoadDroppedHeldConversation ==
    /\ lastOp.op = "loadConversationsDone"
    /\ selectedConversationId # Null
    /\ selectedConversationId \notin Ids(conversations)
    /\ conversations # <<>>

\* C14: a createNewConversation that succeeds puts the new conversation first
\* and active, keeps the conversations held before behind it in their order and
\* inactive, and selects the new id; one that fails leaves conversations,
\* selection, messages and the message-to-thread mapping as they were.
CreateInsertsFirst ==
    [][/\ lastOp'.op = "createNewConversation" =>
              /\ Len(conversations') = Len(conversations) + 1
              /\ conversations'[1].id = lastOp'.id
              /\ conversations'[1].isActive
              /\ \A i \in 1..Len(conversations) :
                     conversations'[i + 1] = [conversations[i] EXCEPT !.isActive = FALSE]
              /\ selectedConversationId' = lastOp'.id
       /\ lastOp'.op = "createNewConversationFail" => UNCHANGED storeVars]_vars

\* C14 witness: a create succeeded with two conversations held before it, one
\* of them selected and active until then
CreatedBeforeTwoOthers ==
    /\ lastOp.op = "createNewConversation"
    /\ Len(conversations) = 3
    /\ conversations[1].id = lastOp.id
    /\ selectedConversationId = lastOp.id

\* C18: a deleteConversation(id) step leaves no messages under id, leaves the
\* message list of every other conversation as it was, adds no list, and
\* leaves the message-to-thread mapping as it was.
DeleteRemovesOwnMessagesOnly ==
    [][lastOp'.op = "deleteConversation" =>
           /\ GetMessagesForConversation(messagesByConversation', lastOp'.id) = <<>>
           /\ DOMAIN messagesByConversation' = DOMAIN messagesByConversation \ {lastOp'.id}
           /\ \A c \in DOMAIN messagesByConversation' :
                  messagesByConversation'[c] = messagesByConversation[c]
           /\ messageThreadMap' = messageThreadMap]_vars

\* C18 witness: a conversation was deleted whose message has a thread mapped;
\* the message is stored nowhere any more, the thread's messages still are
DeletedSourceOfThread ==
    /\ lastOp.op = "deleteConversation"
    /\ lastOp.id \notin DOMAIN messagesByConversation
    /\ \E m \in DOMAIN messageThreadMap :
           /\ \A x \in StoredMessages(messagesByConversation) : x.id # m
           /\ messageThreadMap[m] # lastOp.id
           /\ GetMessagesForConversation(messagesByConversation, messageThreadMap[m]) # <<>>

----------------------------------------------------------------------------
(* Claims about the sidebar's search and the knowledge graph *)

\* the titles and previews of the listed conversations
ListedTitles == {<<"A", "b">>, <<"b">>, <<"a", "A">>}
ListedPreviews == {<<>>, <<"a">>}

\* the lists the sidebar may hold when the user searches: ids 1..n in order
ListedConversations ==
    UNION {[1..n -> ListedTitles \X ListedPreviews] : n \in 0..MaxListed}

InitFilter ==
    /\ \E l \in ListedConversations :
           conversations = [i \in 1..Len(l) |-> Conversation(i, l[i][1], l[i][2], FALSE)]
    /\ InitRest
    /\ sidebar = InitialSidebar(conversations)
    /\ graph = InitialGraph

NextFilter == \E q \in SearchTexts : SetSearchQuery(q)

SpecFilter == InitFilter /\ [][NextFilter]_vars

\* does text hold part, letter by letter, when the case of letters is ignored?
HoldsIgnoringCase(text, part) ==
    \E k \in 0..Len(text) :
        /\ k + Len(part) <= Len(text)
        /\ \A j \in 1..Len(part) :
               \/ text[k + j] = part[j]
               \/ {text[k + j], part[j]} = {"a", "A"}

\* the places of the conversations whose title or preview holds the query
Matching == {i \in 1..Len(conversations) :
                \/ HoldsIgnoringCase(conversations[i].title, sidebar.searchQuery)
                \/ HoldsIgnoringCase(conversations[i].lastMessage, sidebar.searchQuery)}

\* C17: the list the sidebar shows is the conversations whose title or preview
\* holds the query when case is ignored, in the order of the conversation
\* list; with an empty query it is the whole list.
FilterIsMatchingSublist ==
    /\ Len(sidebar.filteredConversations) = Cardinality(Matching)
    /\ \A i \in Matching :
           sidebar.filteredConversations[Cardinality({j \in Matching : j <= i})]
               = conversations[i]
    /\ sidebar.searchQuery = <<>> => sidebar.filteredConversations = conversations

\* C17 witness: an upper-case query matched a lower-case title, and the list
\* shown is the second conversation alone
QueryMatchedOtherCase ==
    /\ sidebar.searchQuery = <<"A", "A">>
    /\ Len(conversations) = 2
    /\ Len(sidebar.filteredConversations) = 1
    /\ sidebar.filteredConversations[1].id = 2

\* the responses the page may receive
InitGraph ==
    /\ conversations = <<>>
    /\ InitRest
    /\ sidebar = InitialSidebar(conversations)
    /\ \E data \in Responses : graph = Graph(data, "mounted", <<>>, <<>>)

NextGraph ==
    \/ LoadKnowledgeGraphStart
    \/ LoadKnowledgeGraphDone
    \/ LoadKnowledgeGraphFail

SpecGraph == InitGraph /\ [][NextGraph]_vars

\* a response that names both fields, whose topics are distinct and whose
\* edges all run between topics
WellFormedResponse(data) ==
    /\ data.hasTopics /\ data.hasEdges
    /\ \A i, j \in 1..Len(data.topics) : data.topics[i] = data.topics[j] => i = j
    /\ \A i \in 1..Len(data.edges) :
           \A e \in 1..2 : \E t \in 1..Len(data.topics) : data.edges[i][e] = data.topics[t]

\* C16: after a load of a well-formed response, every topic is the id of
\* exactly one node and every node is a topic's; there is one edge per pair of
\* the response, with the pair's ends, the edge ids are pairwise distinct, and
\* every edge runs between ids of nodes.
GraphMatchesResponse ==
    (graph.phase = "loaded" /\ WellFormedResponse(graph.data)) =>
        /\ Len(graph.nodes) = Len(graph.data.topics)
        /\ \A t \in 1..Len(graph.data.topics) :
               Cardinality({i \in 1..Len(graph.nodes) :
                               graph.nodes[i].id = graph.data.topics[t]}) = 1
        /\ Len(graph.edges) = Len(graph.data.edges)
        /\ \A i \in 1..Len(graph.edges) :
               /\ graph.edges[i].source = graph.data.edges[i][1]
               /\ graph.edges[i].target = graph.data.edges[i][2]
               /\ \E n \in 1..Len(graph.nodes) : graph.nodes[n].id = graph.edges[i].source
               /\ \E n \in 1..Len(graph.nodes) : graph.nodes[n].id = graph.edges[i].target
        /\ \A i, j \in 1..Len(graph.edges) :
               graph.edges[i].id = graph.edges[j].id => i = j

\* C16 witness: a well-formed response with two topics and the same pair of
\* them twice has been loaded
LoadedRepeatedPair ==
    /\ graph.phase = "loaded"
    /\ WellFormedResponse(graph.data)
    /\ Len(graph.data.topics) = 2
    /\ Len(graph.data.edges) = 2
    /\ graph.data.edges[1] = graph.data.edges[2]
    /\ graph.data.edges[1][1] # graph.data.edges[1][2]

----------------------------------------------------------------------------
(* Claims about a send with no conversation selected, and the quiz panel *)

\* C19: a send that began with no conversation selected goes on, once the
\* create has resolved or thrown, by appending the user's message to a
\* conversation that is in the list and selected after the step: the created
\* one if the create succeeded, a local one that is no backend session if it
\* threw; the send never leaves the wait for the create in any other way.
SendWithoutSelectionKeepsMessage ==
    [][(flow.pc = "creating" /\ flow' # flow) =>
           LET conv == flow'.conversationId
               old == GetMessagesForConversation(messagesByConversation, conv)
               new == GetMessagesForConversation(messagesByConversation', conv)
           IN  /\ flow'.pc = "fetching"
               /\ conv # Null
               /\ conv \in Ids(conversations')
               /\ selectedConversationId' = conv
               /\ Len(new) = Len(old) + 1
               /\ new[Len(new)].role = "user"
               /\ new[Len(new)].content = UserText
               /\ new[Len(new)].conversationId = conv
               /\ \E r \in creates \ creates' :
                      IF r.ok THEN conv = r.id
                      ELSE \A i \in 1..Len(backendSessions) : backendSessions[i] # conv]_vars

\* C19 witness: the create threw, and the user's message is stored under the
\* local conversation, which is listed first and selected
SentIntoLocalConversation ==
    /\ flow.pc = "fetching"
    /\ flow.selected = Null
    /\ \A i \in 1..Len(backendSessions) : backendSessions[i] # flow.conversationId
    /\ selectedConversationId = flow.conversationId
    /\ conversations # <<>>
    /\ conversations[1].id = flow.conversationId
    /\ Len(GetMessagesForConversation(messagesByConversation, flow.conversationId)) = 1

\* the quiz panel opened, moved and closed, with its loads and asks in flight
NextPanel ==
    \/ \E q \in Quizzes, ok \in BOOLEAN : OpenPanel(q, ok)
    \/ \E r \in popup.loads, askOk \in BOOLEAN : LoadQuizMessagesDone(r, askOk)
    \/ \E a \in popup.asks : AskQuestionDone(a)
    \/ \E ok \in BOOLEAN : PanelSendStart(ok)
    \/ \E a \in popup.answers : PanelSendDone(a)
    \/ ClosePanel

SpecPanel == Init /\ [][NextPanel]_vars

\* C20: every initial question the panel asked on its own on opening was asked
\* of a quiz that held no message on the backend when it was asked.
AutoAskOnlyWithoutPriorMessages ==
    \A i \in 1..Len(popup.askLog) : popup.askLog[i].prior = 0

\* C21: for every quiz, the panel has asked the initial question on its own at
\* most once, over all openings, closings and reopenings of the panel.
AutoAskOncePerQuiz ==
    \A q \in Quizzes :
        Cardinality({i \in 1..Len(popup.askLog) : popup.askLog[i].quiz = q}) <= 1

\* the places of the messages of answer a in the panel's thread
PlacesOf(a, role) ==
    {i \in 1..Len(popup.messages) :
        popup.messages[i].role = role /\ popup.messages[i].n = a.n}

\* C22: once the request of an answer has returned, and the panel has stayed
\* open on the same message since the answer was submitted, the panel's thread
\* holds exactly one user message of that answer and exactly one assistant
\* message replying to it (the evaluation if the request succeeded, the apology
\* if not), the user message first.
AnswerThenReply ==
    \A a \in popup.settled :
        (popup.isOpen /\ popup.opens = a.opens) =>
            /\ Cardinality(PlacesOf(a, "user")) = 1
            /\ Cardinality(PlacesOf(a, "assistant")) = 1
            /\ \A i \in PlacesOf(a, "user"), j \in PlacesOf(a, "assistant") :
                   /\ i < j
                   /\ popup.messages[j].content =
                          IF a.ok THEN "evaluation" ELSE "apology"

----------------------------------------------------------------------------
(* Claims about the lines of a chat stream and the conversation they go to *)

\* the lines of a stream that parsed
Parsed(events) == SelectSeq(events, LAMBDA e : e.status # "bad")

\* C23: handling a line that does not parse changes no message, no
\* conversation, no timer and nothing of what the loop carries from line to
\* line; and a stream that is started, chunks, completed once its unparsable
\* lines are left out ends with the one assistant message that stream yields.
BadLineSkipped ==
    /\ [][(flow.pc = "reading" /\ flow'.events = Append(flow.events,
                                                       Event("bad", NoId, <<>>, ""))) =>
              /\ messagesByConversation' = messagesByConversation
              /\ conversations' = conversations
              /\ timers' = timers
              /\ ui' = ui
              /\ flow'.pc = "reading"
              /\ flow'.conversationId = flow.conversationId
              /\ flow'.placeholderAssistantId = flow.placeholderAssistantId
              /\ flow'.fullResponse = flow.fullResponse]_vars
    /\ []((flow.pc = "ended" /\ WellFormedStream(Parsed(flow.events))) =>
              /\ Len(AddedByFlow) = 1
              /\ AddedByFlow[1].role = "assistant"
              /\ AddedByFlow[1].content = ChunkText(Parsed(flow.events))
              /\ AddedByFlow[1].id = Parsed(flow.events)[Len(Parsed(flow.events))].id)

\* C23 witness: a line that did not parse came between started and a chunk,
\* and the stream was read to its completed event
BadLineBetweenEvents ==
    /\ flow.pc = "ended"
    /\ Len(flow.events) = 4
    /\ flow.events[1].status = "started"
    /\ flow.events[2].status = "bad"
    /\ flow.events[3].status = "chunk"
    /\ flow.events[4].status = "completed"
    /\ Len(AddedByFlow) = 1
    /\ AddedByFlow[1].content = flow.events[3].content

----------------------------------------------------------------------------
(* createOrSelectEmptyConversation, called on its own *)

\* createOrSelectEmptyConversation(userId) up to the fetch of the
\* createNewConversation it always calls (lines 435-441)
CreateOrSelectEmptyConversationStart(ok) ==
    /\ IssueCreate(ok, "empty", NoMessage, FALSE, 0, "none")
    /\ lastOp' = Op("createOrSelectEmptyConversation", Null)
    /\ UNCHANGED <<storeVars, nextMsg, convLoads, msgLoads, threadCreates, threadLog,
                   uiVars, pageVars>>

\* ... resumed by the new session: inserted first and selected (209-212)
CreateOrSelectEmptyConversationDone(r) ==
    /\ r \in creates /\ r.ok /\ r.caller = "empty"
    /\ creates' = creates \ {r}
    /\ conversations' = CreatedConversations(conversations, r.id)
    /\ selectedConversationId' = r.id
    /\ lastOp' = NoOp
    /\ UNCHANGED <<messagesByConversation, messageThreadMap, nextId, nextMsg,
                   backendSessions, convLoads, msgLoads, threadCreates, threadLog,
                   uiVars, pageVars>>

\* ... resumed by the failure, which is re-thrown to the caller
CreateOrSelectEmptyConversationFail(r) ==
    /\ r \in creates /\ ~r.ok /\ r.caller = "empty"
    /\ creates' = creates \ {r}
    /\ lastOp' = NoOp
    /\ UNCHANGED <<storeVars, nextId, nextMsg, backendSessions, convLoads, msgLoads,
                   threadCreates, threadLog, uiVars, pageVars>>

\* the list loaded, messages added, and createOrSelectEmptyConversation called
NextEmpty ==
    \/ LoadConversationsStart
    \/ \E list \in convLoads : LoadConversationsDone(list)
    \/ \E c \in Ids(conversations) : AddMessageAct(c, "user", <<"m">>)
    \/ \E ok \in BOOLEAN : CreateOrSelectEmptyConversationStart(ok)
    \/ \E r \in creates : CreateOrSelectEmptyConversationDone(r)
    \/ \E r \in creates : CreateOrSelectEmptyConversationFail(r)

SpecEmpty == Init /\ [][NextEmpty]_vars

\* C24: a createOrSelectEmptyConversation call made while the list holds a
\* conversation that findEmptyConversation reports as empty asks the backend
\* for no new session.
EmptyConversationReused ==
    [][(/\ lastOp'.op = "createOrSelectEmptyConversation"
        /\ FindEmptyConversation(conversations, messagesByConversation) # Null) =>
           /\ creates' = creates
           /\ backendSessions' = backendSessions]_vars

----------------------------------------------------------------------------
(* The send flow while the user moves between conversations *)

\* a send and its well-formed reply, with the list loaded and conversations
\* selected (their messages loaded) at any moment
NextSwitch ==
    \/ LoadConversationsStart
    \/ \E list \in convLoads : LoadConversationsDone(list)
    \/ \E id \in Ids(conversations) : SelectConversationAct(id)
    \/ \E r \in msgLoads : LoadMessagesDone(r)
    \/ \E r \in msgLoads : LoadMessagesFail(r)
    \/ SendStart
    \/ \E ok \in BOOLEAN : SendStartCreate(ok)
    \/ \E r \in creates : SendCreated(r)
    \/ \E r \in creates : SendCreateFailed(r)
    \/ SendFetchOk
    \/ \E e \in ReplyEvents(nextSrv - 1, flow.events) : SendRead(e)
    \/ SendReadEnd

SpecSwitch == Init /\ [][NextSwitch]_vars

\* C25: handling a line of the stream changes messages and previews of no
\* conversation but the one the message was sent in, whichever conversation is
\* selected by then; the placeholder of a started event lands in that
\* conversation, and the conversation the flow works on never changes.
StreamStaysInItsConversation ==
    [][(flow.pc = "reading" /\ flow'.events # flow.events) =>
           LET conv == flow.conversationId
               e == flow'.events[Len(flow'.events)]
           IN  /\ flow'.conversationId = conv
               /\ DOMAIN messagesByConversation' \subseteq
                      DOMAIN messagesByConversation \cup {conv}
               /\ \A c \in DOMAIN messagesByConversation \ {conv} :
                      /\ c \in DOMAIN messagesByConversation'
                      /\ messagesByConversation'[c] = messagesByConversation[c]
               /\ Len(conversations') = Len(conversations)
               /\ \A i \in 1..Len(conversations) :
                      conversations[i].id # conv => conversations'[i] = conversations[i]
               /\ e.status = "started" =>
                      \E i \in 1..Len(GetMessagesForConversation(messagesByConversation',
                                                                 conv)) :
                          messagesByConversation'[conv][i].id = e.id]_vars

\* C25 witness: another conversation is selected while the stream is read, and
\* the reply's text so far stands in the conversation of the send, whose
\* preview shows it
ChunkAppliedAfterSwitch ==
    /\ flow.pc = "reading"
    /\ flow.fullResponse # <<>>
    /\ selectedConversationId \notin {Null, flow.conversationId}
    /\ selectedConversationId \in Ids(conversations)
    /\ \E i \in 1..Len(GetMessagesForConversation(messagesByConversation,
                                                  flow.conversationId)) :
           /\ messagesByConversation[flow.conversationId][i].id = flow.placeholderAssistantId
           /\ messagesByConversation[flow.conversationId][i].content = flow.fullResponse
    /\ \E i \in 1..Len(conversations) :
           /\ conversations[i].id = flow.conversationId
           /\ conversations[i].lastMessage = flow.fullResponse

----------------------------------------------------------------------------
(* Messages added while conversations are selected, loaded and deleted *)

\* deleteConversation(id); the log of added messages forgets those of id
DeleteConversationLogged(id) ==
    /\ conversations' = Remaining(conversations, id)
    /\ selectedConversationId' = NewSelectedId(conversations, selectedConversationId, id)
    /\ messagesByConversation' = RemainingMessages(messagesByConversation, id)
    /\ addLog' = SelectSeq(addLog, LAMBDA m : m.conversationId # id)
    /\ lastOp' = Op("deleteConversation", id)
    /\ UNCHANGED <<messageThreadMap, netVars, threadLog, flow, sends, nextSrv, timers, ui,
                   quizCreates, pageVars>>

NextKeep ==
    \/ LoadConversationsStart
    \/ \E list \in convLoads : LoadConversationsDone(list)
    \/ \E id \in Ids(conversations) : SelectConversationAct(id)
    \/ \E r \in msgLoads : LoadMessagesDone(r)
    \/ \E r \in msgLoads : LoadMessagesFail(r)
    \/ \E c \in Ids(conversations) : AddMessageLogged(c, "user", <<"m">>)
    \/ \E id \in Ids(conversations) : DeleteConversationLogged(id)

SpecKeep == Init /\ [][NextKeep]_vars

\* C26: every message added with addMessage whose conversation has not been
\* deleted since is in the message list of its conversation.
AddedMessageKept ==
    \A i \in 1..Len(addLog) :
        \E j \in 1..Len(GetMessagesForConversation(messagesByConversation,
                                                   addLog[i].conversationId)) :
            messagesByConversation[addLog[i].conversationId][j] = addLog[i]

\* C27: selectedConversationId is null or the id of a conversation in the
\* conversations list.
SelectedIsListed ==
    selectedConversationId = Null \/ selectedConversationId \in Ids(conversations)

\* C28: the chat input is disabled by the quiz block only while the selected
\* conversation is the one whose reply raised the block.
BlockOnlyInOwnConversation ==
    ui.isQuizBlocking => selectedConversationId = ui.blockedBy

----------------------------------------------------------------------------
(* The send flow whose request and reads settle: a fetch that was issued is
   answered or rejected, and a stream that is being read ends or fails *)

SpecChatSettles ==
    /\ Init /\ [][NextChat]_vars
    /\ WF_vars(SendFetchOk \/ SendFetchFail)
    /\ WF_vars(SendReadEnd \/ SendReadFail)

\* C29: whenever a send has set isLoading, isLoading is false again once the
\* request and the reads of its stream have settled.
SendLeavesLoadingFalse == ui.isLoading ~> ~ui.isLoading

\* a stream that delivered a status=error event and then ended
LoadingClearedAfterError ==
    /\ flow.pc = "ended"
    /\ ~ui.isLoading
    /\ \E i \in 1..Len(flow.events) : flow.events[i].status = "error"

----------------------------------------------------------------------------
(* The sidebar's New chat over conversations loaded from the backend *)

NextReuse ==
    \/ LoadConversationsStart
    \/ \E list \in convLoads : LoadConversationsDone(list)
    \/ \E list \in convLoads : LoadConversationsFail(list)
    \/ \E mode \in Modes : NewChatReuse(mode)
    \/ \E r \in msgLoads : LoadMessagesDone(r)
    \/ \E r \in msgLoads : LoadMessagesFail(r)
    \/ \E c \in Ids(conversations) : AddMessageAct(c, "user", <<"m">>)

SpecReuse == Init /\ [][NextReuse]_vars

\* C30: when the message load started by New chat selecting the conversation
\* it found empty completes, that conversation's message list is empty.
ReusedConversationIsEmpty ==
    [][lastOp'.op = "loadMessagesDone" =>
           GetMessagesForConversation(messagesByConversation', lastOp'.id) = <<>>]_vars

====
